---------------------------- MODULE Spec2Model ----------------------------
(***************************************************************************)
(* Model of the halton crate (src/src/lib.rs): the radical-inverse         *)
(* function `number` and the iterator GenericSequence<I, F, D> with its    *)
(* operations new, next, nth, size_hint, count and last.                   *)
(*                                                                         *)
(* Values of the float type F are modelled as exact rationals <<n, m>>     *)
(* (numerator, denominator, lowest terms), so every equality below is an   *)
(* equality of exact arithmetic; IEEE rounding is not modelled.  The       *)
(* position integer usize is modelled with UsizeBits bits and its checked  *)
(* operations return NoneU on overflow, as checked_add / checked_mul /     *)
(* checked_pow do.                                                         *)
(***************************************************************************)
EXTENDS Integers, Sequences, FiniteSets, TLC

(***************************************************************************)
(* Bounds of the model.                                                    *)
(***************************************************************************)
\* const generic D: the digit depth (20 in the alias Sequence).
D == 3
\* largest base drawn for new(base); base 1 stands for the invalid bases.
MaxBase == 4
\* width of usize in the model.
UsizeBits == 6
\* nth(n) is called with n in 0..MaxSmallN,
MaxSmallN == 1
\* with n in Threshold..Threshold + MaxOver,
MaxOver == 2
\* and with n up to MaxNearEnd short of the length b^D of the sequence.
MaxNearEnd == 1
\* number(base, index) is called with index in 0..MaxIndex.
MaxIndex == 40
\* next() calls counted past the end of the sequence.
MaxExtra == 3

\* the skip distance above which nth takes the direct path (lib.rs:250).
Threshold == 50

RECURSIVE Pow(_, _)
\* the exact power x^e (unbounded, not a usize)
Pow(x, e) == IF e = 0 THEN 1 ELSE x * Pow(x, e - 1)

UsizeMax == Pow(2, UsizeBits) - 1
\* Option<usize>::None
NoneU == -1
\* a usize computation that panicked
PanicU == -2

Idx == 0 .. (D - 1)
Bases == 1 .. MaxBase

(***************************************************************************)
(* The float type F as exact rationals.                                    *)
(***************************************************************************)
RECURSIVE GCD(_, _)
GCD(x, y) == IF y = 0 THEN x ELSE GCD(y, x % y)

\* lowest terms; denominators are positive here (every base is >= 1)
Norm(n, m) == LET g == GCD(n, m) IN <<n \div g, m \div g>>

\* F::from(i)
FFrom(i) == <<i, 1>>
\* F + F
FAdd(x, y) == Norm(x[1] * y[2] + y[1] * x[2], x[2] * y[2])
\* F / F
FDiv(x, y) == Norm(x[1] * y[2], x[2] * y[1])
\* F * F
FMul(x, y) == Norm(x[1] * y[1], x[2] * y[2])
FZero == FFrom(0)
FLess(x, y) == x[1] * y[2] < y[1] * x[2]

\* [I::from(0u8); D] and [F::from(0.0f32); D]
ZeroD == [i \in Idx |-> 0]
ZeroR == [i \in Idx |-> FZero]

(***************************************************************************)
(* number(base, index), lib.rs:79-88.                                      *)
(***************************************************************************)
\* an iteration that adds factor * digit before it divides factor by base
numberIterLate(base, s) ==
    [index |-> s.index \div base,
     factor |-> FDiv(s.factor, FFrom(base)),
     result |-> FAdd(s.result, FMul(s.factor, FFrom(s.index % base)))]

\* an iteration that leaves index as it is
numberIterStuck(base, s) ==
    LET f == FDiv(s.factor, FFrom(base))
    IN [index |-> s.index,
        factor |-> f,
        result |-> FAdd(s.result, FMul(f, FFrom(s.index % base)))]

\* lines 83-85, one iteration of the while loop on s = [index, factor, result]:
\* factor /= base; result += factor * (index % base); index /= base
numberIter(base, s) ==
    LET f == FDiv(s.factor, FFrom(base))
    IN [index |-> s.index \div base,
        factor |-> f,
        result |-> FAdd(s.result, FMul(f, FFrom(s.index % base)))]

RECURSIVE numberLoop(_, _, _, _)
\* the while loop of number: one iteration per base-b digit of index
numberLoop(base, index, factor, result) ==
    IF index > 0
    THEN LET s == numberIter(base, [index |-> index, factor |-> factor,
                                    result |-> result])
         IN numberLoop(base, s.index, s.factor, s.result)
    ELSE result

number(base, index) == numberLoop(base, index, FFrom(1), FZero)

(***************************************************************************)
(* Checked usize arithmetic.                                               *)
(***************************************************************************)
checked_add(x, y) ==
    IF x = NoneU \/ y = NoneU THEN NoneU
    ELSE IF x + y > UsizeMax THEN NoneU ELSE x + y

checked_mul(x, y) == IF x * y > UsizeMax THEN NoneU ELSE x * y

\* a power that saturates at usize::MAX instead of reporting the overflow
saturating_pow(x, e) == IF Pow(x, e) > UsizeMax THEN UsizeMax ELSE Pow(x, e)

RECURSIVE checked_pow(_, _)
checked_pow(x, e) ==
    IF e = 0 THEN 1
    ELSE LET p == checked_pow(x, e - 1)
         IN IF p = NoneU THEN NoneU ELSE checked_mul(p, x)

(***************************************************************************)
(* GenericSequence: private helpers, lib.rs:169-185.                       *)
(***************************************************************************)
RECURSIVE posFoldFromTwo(_, _, _)
\* the fold over d zipped with 2.. : the weights are one too large
posFoldFromTwo(dd, i, acc) ==
    IF i = D THEN acc
    ELSE LET v == checked_mul(dd[i], i + 2)
             a == checked_add(acc, v)
         IN IF a = NoneU THEN NoneU ELSE posFoldFromTwo(dd, i + 1, a)

RECURSIVE posFold(_, _, _)
\* try_fold over d zipped with 1.. : acc.checked_add(d[i].checked_mul(i + 1))
posFold(dd, i, acc) ==
    IF i = D THEN acc
    ELSE LET v == checked_mul(dd[i], i + 1)
             a == checked_add(acc, v)
         IN IF a = NoneU THEN NoneU ELSE posFold(dd, i + 1, a)

\* fn pos(&self) -> Option<usize>
pos(dd) == posFold(dd, 0, 0)

\* fn max(&self) -> Option<usize>
max(bb) == LET p == checked_pow(bb, D) IN IF p = NoneU THEN NoneU ELSE p - 1

\* the outcomes of the unchecked usize subtraction x - y: the difference, or
\* on underflow a panic (overflow checks on) or the wrapped value (off)
SubUsize(x, y) ==
    IF x >= y THEN {x - y} ELSE {PanicU, x - y + UsizeMax + 1}

\* fn remaining(&self) -> Option<usize>: the set of possible outcomes
remaining(bb, dd) ==
    IF max(bb) = NoneU \/ pos(dd) = NoneU THEN {NoneU}
    ELSE SubUsize(max(bb), pos(dd))

(***************************************************************************)
(* Iterator::next, lib.rs:198-219.                                         *)
(***************************************************************************)
RECURSIVE carryShort(_, _, _)
\* a carry loop that gives up one digit early (l == self.d.len() - 1)
carryShort(bb, dd, l) ==
    IF dd[l] = bb
    THEN LET d0 == [dd EXCEPT ![l] = 0]
         IN IF l + 1 >= D - 1
            THEN [d |-> d0, l |-> D]
            ELSE carryShort(bb, [d0 EXCEPT ![l + 1] = @ + 1], l + 1)
    ELSE [d |-> dd, l |-> l]

RECURSIVE carryToOne(_, _, _)
\* a carry loop whose reset of line 204 writes 1 where it should write 0
carryToOne(bb, dd, l) ==
    IF dd[l] = bb
    THEN LET d0 == [dd EXCEPT ![l] = 1]
         IN IF l + 1 = D
            THEN [d |-> d0, l |-> D]
            ELSE carryToOne(bb, [d0 EXCEPT ![l + 1] = @ + 1], l + 1)
    ELSE [d |-> dd, l |-> l]

RECURSIVE carry(_, _, _)
\* the while loop of next (lines 203-210), entered at level l
carry(bb, dd, l) ==
    IF dd[l] = bb
    THEN LET d0 == [dd EXCEPT ![l] = 0]
         IN IF l + 1 = D
            THEN [d |-> d0, l |-> D]
            ELSE carry(bb, [d0 EXCEPT ![l + 1] = @ + 1], l + 1)
    ELSE [d |-> dd, l |-> l]

\* a next that forgets to push the recomputed sum down the cache
rShiftSkipped(bb, rr, i) == rr

RECURSIVE rShiftClearing(_, _, _)
\* a cache update that zeroes each entry r[i + 1] once it has read it
rShiftClearing(bb, rr, i) ==
    IF i < 1 THEN [rr EXCEPT ![i + 1] = FZero]
    ELSE rShiftClearing(bb, [rr EXCEPT ![i - 1] = FDiv(rr[i], FFrom(bb)),
                                       ![i + 1] = FZero], i - 1)

RECURSIVE rShift(_, _, _)
\* for i in (1..l).rev() { r[i - 1] = r[i] / b }, started at i = l - 1
rShift(bb, rr, i) ==
    IF i < 1 THEN rr
    ELSE rShift(bb, [rr EXCEPT ![i - 1] = FDiv(rr[i], FFrom(bb))], i - 1)

\* lines 199-214 of next: the digits and the cache it leaves, and the way
\* it ends: "none" (return None), "carry" (line 215) or "plain" (line 217)
advance(bb, dd, rr) ==
    LET d1 == [dd EXCEPT ![0] = @ + 1]
    IN IF d1[0] = bb
       THEN LET c == carry(bb, d1, 0)
            IN IF c.l = D
               THEN [d |-> c.d, r |-> rr, ret |-> "none"]
               ELSE LET r1 == [rr EXCEPT ![c.l - 1] =
                                  FDiv(FAdd(FFrom(c.d[c.l]), rr[c.l]), FFrom(bb))]
                    IN [d |-> c.d, r |-> rShift(bb, r1, c.l - 1), ret |-> "carry"]
       ELSE [d |-> d1, r |-> rr, ret |-> "plain"]

\* a next whose line 217 returns d[0] + r[0] without the division by b
yieldUndivided(bb, o) ==
    IF o.ret = "carry" THEN FDiv(o.r[0], FFrom(bb))
    ELSE IF o.ret = "plain" THEN FAdd(FFrom(o.d[0]), o.r[0])
    ELSE FZero

\* the value next returns: Some(r[0] / b) after a carry (line 215),
\* Some((d[0] + r[0]) / b) otherwise (line 217)
yield(bb, o) ==
    IF o.ret = "carry" THEN FDiv(o.r[0], FFrom(bb))
    ELSE IF o.ret = "plain" THEN FDiv(FAdd(FFrom(o.d[0]), o.r[0]), FFrom(bb))
    ELSE FZero

\* fn next(&mut self) -> Option<F>: the state left and the value returned
next(bb, dd, rr) ==
    LET o == advance(bb, dd, rr)
    IN [d |-> o.d, r |-> o.r,
        ret |-> IF o.ret = "none" THEN "none" ELSE "some",
        val |-> yield(bb, o)]

(***************************************************************************)
(* Iterator::nth, lib.rs:249-274.                                          *)
(***************************************************************************)
RECURSIVE decomposeWhole(_, _, _, _)
\* a decomposition that stores n where it should store n % b
decomposeWhole(bb, dd, last, n) ==
    IF last >= D
    THEN [d |-> dd, panic |-> TRUE]
    ELSE IF n >= bb
         THEN decomposeWhole(bb, [dd EXCEPT ![last] = n], last + 1, n \div bb)
         ELSE [d |-> [dd EXCEPT ![last] = n], panic |-> FALSE]

RECURSIVE decompose(_, _, _, _)
\* lines 254-260: the digits of n, least significant first, written from
\* d[last] on; an index past the array panics (bounds check)
decompose(bb, dd, last, n) ==
    IF last >= D
    THEN [d |-> dd, panic |-> TRUE]
    ELSE IF n >= bb
         THEN decompose(bb, [dd EXCEPT ![last] = n % bb], last + 1, n \div bb)
         ELSE [d |-> [dd EXCEPT ![last] = n], panic |-> FALSE]

RECURSIVE rebuildShort(_, _, _, _)
\* a rebuild whose range is (2..D).rev(): r[0] is left at zero
rebuildShort(bb, dd, rr, i) ==
    IF i < 2 THEN rr
    ELSE rebuildShort(bb, dd,
                      [rr EXCEPT ![i - 1] = FDiv(FAdd(FFrom(dd[i]), rr[i]), FFrom(bb))],
                      i - 1)

RECURSIVE rebuild(_, _, _, _)
\* lines 261-263: for i in (1..D).rev() { r[i-1] = (d[i] + r[i]) / b }
rebuild(bb, dd, rr, i) ==
    IF i < 1 THEN rr
    ELSE rebuild(bb, dd,
                 [rr EXCEPT ![i - 1] = FDiv(FAdd(FFrom(dd[i]), rr[i]), FFrom(bb))],
                 i - 1)

\* one iteration of the loop of lines 267-273 on the loop state
\* s = [d, r, n, o]: o is "run" while the loop runs, and the way the last
\* next ended once the loop has returned
steppingIter(bb, s) ==
    LET o == advance(bb, s.d, s.r)
    IN IF o.ret = "none" \/ s.n = 0
       THEN [d |-> o.d, r |-> o.r, n |-> s.n, o |-> o.ret]
       ELSE [d |-> o.d, r |-> o.r, n |-> s.n - 1, o |-> "run"]

RECURSIVE steppingRun(_, _, _)
\* at most k iterations of the loop
steppingRun(bb, s, k) ==
    IF k = 0 \/ s.o # "run" THEN s
    ELSE steppingRun(bb, steppingIter(bb, s), k - 1)

RECURSIVE steppingLoop(_, _)
\* the loop run to its end, D * D iterations at a time
steppingLoop(bb, s) ==
    IF s.o # "run" THEN s
    ELSE steppingLoop(bb, steppingRun(bb, s, D * D))

\* lines 267-273: for x in self { if n == 0 { return Some(x) } n -= 1 } None
\* (the values x of the steps before the last are dropped unread)
stepping(bb, dd, rr, n) ==
    LET s == steppingLoop(bb, [d |-> dd, r |-> rr, n |-> n, o |-> "run"])
    IN [d |-> s.d, r |-> s.r,
        ret |-> IF s.o = "none" THEN "none" ELSE "some",
        val |-> yield(bb, [d |-> s.d, r |-> s.r, ret |-> s.o])]

\* fn nth(&mut self, n: usize) -> Option<F>
nth(bb, dd, rr, n) ==
    LET t == checked_add(n, pos(dd))
    IN IF n > Threshold /\ t # NoneU
       THEN LET c == decompose(bb, ZeroD, 0, t)
            IN IF c.panic
               THEN [d |-> c.d, r |-> ZeroR, ret |-> "panic", val |-> FZero]
               ELSE next(bb, c.d, rebuild(bb, c.d, ZeroR, D - 1))
       ELSE stepping(bb, dd, rr, n)

(***************************************************************************)
(* Iterator::size_hint and Iterator::count, lib.rs:222-237.                *)
(***************************************************************************)
\* fn size_hint(&self) -> (usize, Option<usize>): the possible outcomes
size_hint(bb, dd) ==
    { IF x = NoneU THEN [ret |-> "hint_unbounded", cnt |-> 0]
      ELSE IF x = PanicU THEN [ret |-> "panic", cnt |-> 0]
      ELSE [ret |-> "hint", cnt |-> x] : x \in remaining(bb, dd) }

\* fn count(self) -> usize: the possible outcomes
count(bb, dd) ==
    { IF x = NoneU \/ x = PanicU THEN [ret |-> "panic", cnt |-> 0]
      ELSE [ret |-> "count", cnt |-> x] : x \in remaining(bb, dd) }

(***************************************************************************)
(* Iterator::last, lib.rs:240-246.                                         *)
(***************************************************************************)
\* one call of next by self.fold(None, |_, v| Some(v)) on the loop state
\* s = [d, r, o, lo]: o is "run" until a next has returned None, lo is the
\* outcome of the last next that returned Some (ret "none" before the first)
foldIter(bb, s) ==
    LET o == advance(bb, s.d, s.r)
    IN IF o.ret = "none"
       THEN [d |-> o.d, r |-> o.r, o |-> "done", lo |-> s.lo]
       ELSE [d |-> o.d, r |-> o.r, o |-> "run", lo |-> o]

RECURSIVE foldRun(_, _, _)
\* at most k calls of next
foldRun(bb, s, k) ==
    IF k = 0 \/ s.o # "run" THEN s
    ELSE foldRun(bb, foldIter(bb, s), k - 1)

RECURSIVE foldLoop(_, _)
\* next called until it returns None, D * D calls at a time
foldLoop(bb, s) ==
    IF s.o # "run" THEN s
    ELSE foldLoop(bb, foldRun(bb, s, D * D))

\* line 244: self.fold(None, |_, v| Some(v))
fold(bb, dd, rr) ==
    LET s == foldLoop(bb, [d |-> dd, r |-> rr, o |-> "run",
                           lo |-> [d |-> dd, r |-> rr, ret |-> "none"]])
    IN [d |-> s.d, r |-> s.r,
        ret |-> IF s.lo.ret = "none" THEN "none" ELSE "some",
        val |-> yield(bb, s.lo)]

\* line 242: self.nth(remaining - 1), the subtraction unchecked
nthOfRemaining(bb, dd, rr, x) ==
    { IF y = PanicU
      THEN [d |-> dd, r |-> rr, ret |-> "panic", val |-> FZero]
      ELSE nth(bb, dd, rr, y) : y \in SubUsize(x, 1) }

\* fn last(mut self) -> Option<F>: the possible outcomes
last(bb, dd, rr) ==
    UNION { IF x = NoneU THEN {fold(bb, dd, rr)}
            ELSE IF x = PanicU
                 THEN {[d |-> dd, r |-> rr, ret |-> "panic", val |-> FZero]}
                 ELSE nthOfRemaining(bb, dd, rr, x) : x \in remaining(bb, dd) }

(***************************************************************************)
(* State.                                                                  *)
(***************************************************************************)
VARIABLES
    phase,    \* "unbuilt", "live", "consumed" (count or last took self),
              \* "panicked"
    b, d, r,  \* the fields of GenericSequence
    ret,      \* kind of the last result
    val,      \* the F of the last Some
    cnt,      \* the usize of the last size_hint / count
    lastOp,   \* the last operation called
    lastN,    \* the argument of the last nth
    steps,    \* number of next() calls so far while only next() was called
              \* since new (size_hint does not count); -1 otherwise
    onFresh,  \* the last operation was called on the generator as new left it
    sawNone   \* some next() has returned None before the last operation

\* a call of number(base, index), run one loop iteration at a time
VARIABLES
    nPc,      \* "idle", "loop" (at the loop test of line 82), "done" (returned)
    nBase,    \* the argument base
    nArg,     \* the argument index, as passed
    nIndex,   \* the local index
    nFactor,  \* the local factor
    nResult,  \* the local result
    nIters    \* loop iterations run so far

numVars == <<nPc, nBase, nArg, nIndex, nFactor, nResult, nIters>>

vars == <<phase, b, d, r, ret, val, cnt, lastOp, lastN, steps, onFresh, sawNone,
          numVars>>

\* pub fn new(base: I) -> Self
new(base) == [b |-> base, d |-> ZeroD, r |-> ZeroR]

Init ==
    /\ phase = "unbuilt"
    /\ b = 0
    /\ d = ZeroD
    /\ r = ZeroR
    /\ ret = "unit"
    /\ val = FZero
    /\ cnt = 0
    /\ lastOp = "none"
    /\ lastN = 0
    /\ steps = 0
    /\ onFresh = FALSE
    /\ sawNone = FALSE
    /\ nPc = "idle"
    /\ nBase = 0
    /\ nArg = 0
    /\ nIndex = 0
    /\ nFactor = FFrom(1)
    /\ nResult = FZero
    /\ nIters = 0

DoNew ==
    /\ phase = "unbuilt"
    /\ \E base \in Bases :
          LET s == new(base)
          IN /\ b' = s.b
             /\ d' = s.d
             /\ r' = s.r
    /\ phase' = "live"
    /\ ret' = "unit"
    /\ lastOp' = "new"
    /\ UNCHANGED <<val, cnt, lastN, steps, onFresh, sawNone, numVars>>

\* the last counted next() call of a run of next() calls
StepCap == Pow(b, D) + MaxExtra

DoNext ==
    /\ phase = "live"
    /\ LET o == next(b, d, r)
       IN /\ d' = o.d
          /\ r' = o.r
          /\ ret' = o.ret
          /\ val' = o.val
    /\ lastOp' = "next"
    /\ lastN' = 0
    /\ cnt' = 0
    /\ onFresh' = (steps = 0)
    /\ steps' = IF steps >= 0 /\ steps < StepCap THEN steps + 1 ELSE -1
    /\ sawNone' = (sawNone \/ ret = "none")
    /\ UNCHANGED <<phase, b, numVars>>

\* the arguments nth is called with: short skips, skips at the threshold,
\* skips to the end of the sequence and the largest usize
NthArgs ==
    ((0 .. MaxSmallN) \cup (Threshold .. (Threshold + MaxOver))
       \cup ((Pow(b, D) - MaxNearEnd) .. Pow(b, D)) \cup {UsizeMax})
    \cap (0 .. UsizeMax)

DoNth ==
    /\ phase = "live"
    /\ \E n \in NthArgs :
          /\ LET o == nth(b, d, r, n)
             IN /\ d' = o.d
                /\ r' = o.r
                /\ ret' = o.ret
                /\ val' = o.val
                /\ phase' = IF o.ret = "panic" THEN "panicked" ELSE phase
          /\ lastN' = n
    /\ lastOp' = "nth"
    /\ cnt' = 0
    /\ onFresh' = (steps = 0)
    /\ steps' = -1
    /\ sawNone' = (sawNone \/ ret = "none")
    /\ UNCHANGED <<b, numVars>>

DoSizeHint ==
    /\ phase = "live"
    /\ \E o \in size_hint(b, d) :
          /\ ret' = o.ret
          /\ cnt' = o.cnt
          /\ phase' = IF o.ret = "panic" THEN "panicked" ELSE phase
    /\ lastOp' = "size_hint"
    /\ lastN' = 0
    /\ val' = FZero
    /\ onFresh' = (steps = 0)
    /\ sawNone' = (sawNone \/ ret = "none")
    /\ UNCHANGED <<b, d, r, steps, numVars>>

DoCount ==
    /\ phase = "live"
    /\ \E o \in count(b, d) :
          /\ ret' = o.ret
          /\ cnt' = o.cnt
          /\ phase' = IF o.ret = "panic" THEN "panicked" ELSE "consumed"
    /\ lastOp' = "count"
    /\ lastN' = 0
    /\ val' = FZero
    /\ onFresh' = (steps = 0)
    /\ sawNone' = (sawNone \/ ret = "none")
    /\ UNCHANGED <<b, d, r, steps, numVars>>

DoLast ==
    /\ phase = "live"
    /\ \E o \in last(b, d, r) :
          /\ d' = o.d
          /\ r' = o.r
          /\ ret' = o.ret
          /\ val' = o.val
          /\ phase' = IF o.ret = "panic" THEN "panicked" ELSE "consumed"
    /\ lastOp' = "last"
    /\ lastN' = 0
    /\ cnt' = 0
    /\ onFresh' = (steps = 0)
    /\ sawNone' = (sawNone \/ ret = "none")
    /\ UNCHANGED <<b, steps, numVars>>

Next == DoNew \/ DoNext \/ DoNth \/ DoSizeHint \/ DoCount \/ DoLast

Spec == Init /\ [][Next]_vars

(***************************************************************************)
(* number(base, index) as a process: the call, the loop iterations and the *)
(* return, lib.rs:79-88.                                                   *)
(***************************************************************************)
genVars == <<phase, b, d, r, ret, val, cnt, lastOp, lastN, steps, onFresh, sawNone>>

\* a usize has at most UsizeBits digits in a base >= 2: iterations are
\* counted up to one more
IterCap == UsizeBits + 1

\* lines 79-81: let mut factor = 1.0; let mut result = 0.0
NumberCall ==
    /\ nPc = "idle"
    /\ \E base \in Bases, index \in 0 .. MaxIndex :
          /\ nBase' = base
          /\ nArg' = index
          /\ nIndex' = index
    /\ nFactor' = FFrom(1)
    /\ nResult' = FZero
    /\ nIters' = 0
    /\ nPc' = "loop"
    /\ UNCHANGED genVars

\* lines 82-86: the loop test passes and the body runs once
NumberIter ==
    /\ nPc = "loop"
    /\ nIndex > 0
    /\ nIters < IterCap
    /\ LET s == numberIter(nBase, [index |-> nIndex, factor |-> nFactor,
                                   result |-> nResult])
       IN /\ nIndex' = s.index
          /\ nFactor' = s.factor
          /\ nResult' = s.result
    /\ nIters' = nIters + 1
    /\ UNCHANGED <<nPc, nBase, nArg, genVars>>

\* lines 82, 87: the loop test fails and result is returned
NumberReturn ==
    /\ nPc = "loop"
    /\ nIndex = 0
    /\ nPc' = "done"
    /\ UNCHANGED <<nBase, nArg, nIndex, nFactor, nResult, nIters, genVars>>

NextNumber == NumberCall \/ NumberIter \/ NumberReturn

\* the call is one thread of straight-line code: a step that can be taken
\* is taken
SpecNumber == Init /\ [][NextNumber]_vars /\ WF_vars(NextNumber)

(***************************************************************************)
(* Consecutive calls of next, for the properties.                          *)
(***************************************************************************)
\* one more call of next on s = [d, r, ret, val, calls]
nextCall(bb, s) ==
    LET o == next(bb, s.d, s.r)
    IN [d |-> o.d, r |-> o.r, ret |-> o.ret, val |-> o.val, calls |-> s.calls + 1]

RECURSIVE nextRun(_, _, _)
\* calls of next until s.calls = k
nextRun(bb, s, k) ==
    IF s.calls >= k THEN s ELSE nextRun(bb, nextCall(bb, s), k)

RECURSIVE nextLoop(_, _, _)
\* the same, D * D calls at a time
nextLoop(bb, s, k) ==
    IF s.calls >= k THEN s
    ELSE nextLoop(bb, nextRun(bb, s, IF s.calls + D * D < k THEN s.calls + D * D ELSE k), k)

\* the result of the k-th of k >= 1 consecutive calls of next from <<dd, rr>>
nextTimes(bb, dd, rr, k) ==
    nextLoop(bb, [d |-> dd, r |-> rr, ret |-> "unit", val |-> FZero, calls |-> 0], k)

\* the last position of the sequence, b^D - 1 (exact, not a usize)
LastPos == Pow(b, D) - 1

\* the state is the one left by the k-th call of a run of next() calls on new(b)
AfterNexts(k) == phase = "live" /\ b >= 2 /\ lastOp = "next" /\ steps = k

(***************************************************************************)
(* C1: for every base b >= 2 and every k in 1..b^D - 1, the k-th call of   *)
(* next() on new(b) returns Some(number(b, k)).  (number has no operation  *)
(* that can overflow, so its index is not cut to the width of usize.)      *)
(***************************************************************************)
C1_NextIsNumber ==
    \A k \in 1 .. LastPos :
        AfterNexts(k) => ret = "some" /\ val = number(b, k)

\* the 9th value in base 3, 1/27, returned after a carry over two digits
C1_Witness ==
    AfterNexts(9) /\ b = 3 /\ ret = "some" /\ val = <<1, 27>> /\ d[2] = 1

(***************************************************************************)
(* C2: on a fresh generator new(b), b >= 2, nth(n) with 0 <= n <= b^D - 1  *)
(* returns what the (n+1)-th of n + 1 calls of next() on new(b) returns:   *)
(* the same value, or None for both, on the stepping path (n <= 50) and on *)
(* the direct path (n > 50).                                               *)
(***************************************************************************)
C2_NthOnFresh ==
    (b >= 2 /\ lastOp = "nth" /\ onFresh /\ lastN <= LastPos)
        => LET e == nextTimes(b, ZeroD, ZeroR, lastN + 1)
           IN ret = e.ret /\ val = e.val

\* the direct path taken on a fresh generator and returning a value
C2_Witness ==
    /\ b >= 2 /\ lastOp = "nth" /\ onFresh
    /\ lastN > Threshold /\ lastN < LastPos
    /\ ret = "some" /\ val = number(b, lastN + 1)

(***************************************************************************)
(* C3: new(b), b >= 2, yields Some on exactly its first b^D - 1 calls of   *)
(* next() and None on call b^D; the last value is the radical inverse of   *)
(* b^D - 1, (b^D - 1) / b^D, reached with all D digits equal to b - 1.     *)
(***************************************************************************)
C3_Exhaustion ==
    \A k \in 1 .. (LastPos + 1) :
        AfterNexts(k) =>
            /\ (ret = "some") <=> (k <= LastPos)
            /\ (ret = "none") <=> (k = LastPos + 1)
            /\ k = LastPos =>
                  /\ val = <<LastPos, LastPos + 1>>
                  /\ \A i \in Idx : d[i] = b - 1

\* call number b^D of next() has returned None
C3_Witness == AfterNexts(LastPos + 1) /\ b = 3 /\ ret = "none"

(***************************************************************************)
(* C4: exhaustion is permanent: once a next() has returned None, no later  *)
(* next() or nth(n) on that generator produces a value again.              *)
(***************************************************************************)
C4_ExhaustionPermanent ==
    (b >= 2 /\ sawNone /\ lastOp \in {"next", "nth"}) => ret # "some"

(***************************************************************************)
(* C5: after k successful next() calls on new(b), b >= 2, and for every n  *)
(* with k + n + 1 <= b^D - 1, nth(n) returns the value and leaves the      *)
(* digits d and the cache r that n + 1 consecutive next() calls would.     *)
(***************************************************************************)
C5_NthIsRepeatedNext ==
    [][ (/\ phase = "live" /\ b >= 2 /\ steps >= 0
         /\ lastOp' = "nth"
         /\ steps + lastN' + 1 <= LastPos)
        => LET e == nextTimes(b, d, r, lastN' + 1)
           IN ret' = e.ret /\ val' = e.val /\ d' = e.d /\ r' = e.r ]_vars

(***************************************************************************)
(* C6: for new(b), b >= 2, with b^D representable, the count size_hint()   *)
(* reports (lower and upper bound alike) decreases by exactly 1 with each  *)
(* successful next(), and it is 0 exactly at the last position b^D - 1.    *)
(***************************************************************************)
C6_RemainingCountsDown ==
    [][ (/\ phase = "live" /\ b >= 2 /\ max(b) # NoneU /\ steps >= 0
         /\ lastOp' = "next" /\ ret' = "some")
        => /\ \A h \in size_hint(b, d), h2 \in size_hint(b, d') :
                 h.ret = "hint" /\ h2.ret = "hint" /\ h2.cnt = h.cnt - 1
           /\ \A h2 \in size_hint(b, d') :
                 (h2.cnt = 0) <=> (steps' = LastPos) ]_vars

(***************************************************************************)
(* C7: after k successful next() calls on new(b), b >= 2, with b^D         *)
(* representable, count() returns the number of next() calls that would    *)
(* still return Some: b^D - 1 - k.                                         *)
(***************************************************************************)
C7_CountIsRemaining ==
    (/\ b >= 2 /\ max(b) # NoneU /\ lastOp = "count"
     /\ steps >= 0 /\ steps <= LastPos)
        => ret = "count" /\ cnt = LastPos - steps

(***************************************************************************)
(* C8: nth(n) with n > 50, called after k successful next() calls on       *)
(* new(b), b >= 2, with k + n beyond the last position b^D - 1, ends by    *)
(* returning None, as n + 1 calls of next() would end.                     *)
(***************************************************************************)
C8_NthPastEndIsNone ==
    [][ (/\ phase = "live" /\ b >= 2 /\ steps >= 0 /\ steps <= LastPos
         /\ lastOp' = "nth" /\ lastN' > Threshold
         /\ steps + lastN' > LastPos)
        => ret' = "none" ]_vars

(***************************************************************************)
(* C9: construction rejects an invalid base: no generator is ever built    *)
(* with a base below 2.                                                    *)
(***************************************************************************)
C9_InvalidBaseRejected == phase # "unbuilt" => b >= 2

(***************************************************************************)
(* C10: when b^D does not fit in usize, size_hint() returns (0, None) and  *)
(* count() panics; neither returns a number obtained from a wrapped b^D.   *)
(***************************************************************************)
C10_OverflowReported ==
    (phase # "unbuilt" /\ Pow(b, D) > UsizeMax)
        => /\ lastOp = "size_hint" => ret = "hint_unbounded" /\ cnt = 0
           /\ lastOp = "count" => ret = "panic" /\ phase = "panicked"

\* size_hint() called on a generator whose b^D overflows, after some steps
C10_Witness ==
    /\ Pow(b, D) > UsizeMax /\ lastOp = "size_hint" /\ steps > 0
    /\ ret = "hint_unbounded" /\ cnt = 0 /\ phase = "live"

(***************************************************************************)
(* C11: for every base b >= 2, number(b, 0) is 0 and, for every index      *)
(* i >= 1, number(b, i) lies strictly between 0 and 1; it is the sum over  *)
(* the base-b digits c_j of i of c_j / b^(j+1).                            *)
(***************************************************************************)
RECURSIVE DigitSum(_, _, _)
\* the sum of c_j / b^(j+1) over the digits c_j of index from digit j on
DigitSum(base, index, j) ==
    IF Pow(base, j) > index THEN FZero
    ELSE FAdd(Norm((index \div Pow(base, j)) % base, Pow(base, j + 1)),
              DigitSum(base, index, j + 1))

C11_NumberRange ==
    (nPc = "done" /\ nBase >= 2)
    => /\ nResult = DigitSum(nBase, nArg, 0)
       /\ nResult = number(nBase, nArg)
       /\ nArg = 0 => nResult = FZero
       /\ nArg >= 1 => FLess(FZero, nResult) /\ FLess(nResult, FFrom(1))

C11_Witness ==
    nPc = "done" /\ nBase = 2 /\ nArg = 5 /\ nIters = 3 /\ nResult = <<5, 8>>

C13_LastIsLastOfNexts ==
    [][ (phase = "live" /\ b >= 2 /\ lastOp' = "last")
        => LET e == fold(b, d, r)
           IN /\ ret' = e.ret
              /\ val' = e.val
              /\ (steps >= 0 /\ steps < LastPos)
                    => ret' = "some" /\ val' = number(b, LastPos)
              /\ (steps = LastPos \/ steps = LastPos + 1) => ret' = "none" ]_vars

(***************************************************************************)
(* C14: after every completed next() or nth() call on a generator built    *)
(* with b >= 2, every digit satisfies 0 <= d[i] < b.                       *)
(***************************************************************************)
C14_DigitsBelowBase ==
    (phase = "live" /\ b >= 2) => \A i \in Idx : 0 <= d[i] /\ d[i] < b

\* a direct-path nth that has written the largest digit at the top level
C14_Witness ==
    /\ phase = "live"
    /\ b = 4
    /\ lastOp = "nth"
    /\ lastN > Threshold
    /\ ret = "some"
    /\ d[D - 1] = b - 1

(***************************************************************************)
(* C15: after every completed next() or nth() call, a next() that returned *)
(* None included, the cache satisfies r[i-1] = (d[i] + r[i]) / b for every *)
(* i with 1 <= i < D, and r[D-1] = 0.                                      *)
(***************************************************************************)
C15_CacheConsistent ==
    (phase = "live" /\ b >= 2 /\ lastOp \in {"next", "nth"})
    => /\ r[D - 1] = FZero
       /\ \A i \in 1 .. (D - 1) :
             r[i - 1] = FDiv(FAdd(FFrom(d[i]), r[i]), FFrom(b))

(***************************************************************************)
(* C16: after k successful next() calls on new(b), 0 <= k <= b^D - 1, the  *)
(* digits satisfy sum over i of d[i] * b^i = k: each successful next()     *)
(* advances the represented position by exactly 1.                         *)
(***************************************************************************)
RECURSIVE PositionFrom(_, _, _)
\* the sum of dd[j] * bb^j over the levels j >= i
PositionFrom(bb, dd, i) ==
    IF i >= D THEN 0 ELSE dd[i] * Pow(bb, i) + PositionFrom(bb, dd, i + 1)

C16_PositionIsCallCount ==
    (phase = "live" /\ b >= 2 /\ steps >= 0 /\ steps <= LastPos)
    => PositionFrom(b, d, 0) = steps

C16_Witness ==
    AfterNexts(LastPos) /\ b = 3 /\ ret = "some" /\ PositionFrom(b, d, 0) = Pow(3, D) - 1

(***************************************************************************)
(* C17: a next() that does not carry changes only d[0] and leaves          *)
(* d[1..D) and all of r unchanged; a next() whose carry stops at level l,  *)
(* 1 <= l < D, sets d[0..l) to 0, increments d[l], rewrites only r[0..l)   *)
(* and leaves d[l+1..D) and r[l..D) unchanged.                             *)
(***************************************************************************)
\* the level a step from the digits dd stops at: the lowest digit below b - 1
\* (0 when the step does not carry)
StopLevel(bb, dd) ==
    CHOOSE l \in Idx : dd[l] # bb - 1 /\ \A j \in 0 .. (l - 1) : dd[j] = bb - 1

C17_StepFrame ==
    [][ (phase = "live" /\ b >= 2 /\ lastOp' = "next" /\ ret' = "some")
        => LET l == StopLevel(b, d)
           IN /\ \A i \in Idx :
                    d'[i] = IF i < l THEN 0 ELSE IF i = l THEN d[i] + 1 ELSE d[i]
              /\ \A i \in Idx : i >= l => r'[i] = r[i] ]_vars

\* the state left by a carry that stopped at level 1 above a nonzero r[1]
C17_Witness ==
    /\ AfterNexts(6)
    /\ b = 2
    /\ d[0] = 0 /\ d[1] = 1 /\ d[2] = 1
    /\ r[0] = <<3, 4>> /\ r[1] = <<1, 2>>

(***************************************************************************)
(* C18: number(base, index) terminates for every base >= 2 and every       *)
(* index >= 0, after exactly as many loop iterations as index has base-b   *)
(* digits (none for index 0), and index strictly decreases at every        *)
(* iteration until it reaches 0.                                           *)
(***************************************************************************)
\* the number of base-b digits of index: the least n with base^n > index
DigitCount(base, index) ==
    CHOOSE n \in 0 .. IterCap :
        Pow(base, n) > index /\ \A m \in 0 .. (n - 1) : Pow(base, m) <= index

C18_NumberTerminates ==
    /\ (nPc = "loop" /\ nBase >= 2) ~> (nPc = "done")
    /\ [](nPc = "done" /\ nBase >= 2
             => nIndex = 0 /\ nIters = DigitCount(nBase, nArg))
    /\ [][ (nPc = "loop" /\ nBase >= 2 /\ nIters' = nIters + 1)
            => 0 <= nIndex' /\ nIndex' < nIndex ]_vars

C18_Witness ==
    nPc = "done" /\ nBase = 3 /\ nArg = 27 /\ nIndex = 0 /\ nIters = 4

(***************************************************************************)
(* C19: in every state reachable from new(b), b >= 2, by next/nth calls    *)
(* in which max() is defined, the position computed by pos() is at most    *)
(* max(): the unchecked subtraction max - pos of remaining() never         *)
(* underflows, and size_hint() and count() never return a wrapped value.   *)
(***************************************************************************)
C19_PosAtMostMax ==
    (b >= 2 /\ max(b) # NoneU)
    => /\ phase = "live" => pos(d) # NoneU /\ pos(d) <= max(b)
       /\ lastOp \in {"size_hint", "count"}
             => /\ phase # "panicked"
                /\ ret \in {"hint", "count"}
                /\ cnt = max(b) - pos(d)

\* size_hint at the last position, where pos() is largest
C19_Witness ==
    /\ b = 2
    /\ lastOp = "size_hint"
    /\ steps = LastPos
    /\ ret = "hint"
    /\ pos(d) = max(b) - 1
    /\ cnt = 1

=============================================================================
